---- MODULE Spec2Model ----
(***************************************************************************)
(* Model of fprime.fbuild.target: the process-wide registry of build       *)
(* targets (Target.ALL_TARGETS), the three concrete target classes and     *)
(* their execute methods, run against an external builder.                 *)
(*                                                                         *)
(* Objects live in `heap` (a sequence; an object's identity is its index). *)
(* Python's None is the empty tuple and a present value x is <<x>>.        *)
(***************************************************************************)
EXTENDS Integers, Sequences, FiniteSets, TLC

VARIABLES
    heap,         \* the instances constructed so far
    declared,     \* the constructor calls the caller has made
    ALL_TARGETS,  \* Target.ALL_TARGETS: the registry, a list of instances
    ret,          \* what the last constructor or registry call gave its caller
    stack,        \* per thread: the frames of the execute calls in progress
    exc,          \* per thread: the exception being raised, or None
    calls,        \* per thread: the builder calls of the current execute, and
                  \* whether the builder raised
    log           \* per thread: the execute methods entered by the current execute

vars == <<heap, declared, ALL_TARGETS, ret, stack, exc, calls, log>>

(* ---------------------------------------------------------------------- *)
(* Bounds of the model                                                     *)
(* ---------------------------------------------------------------------- *)
\* constructor calls the caller makes
MaxConstruct == 2
\* children handed to one CompositeTarget
MaxChildren == 2
\* constructions in one run of the nesting specification
MaxNested == 3

(* ---------------------------------------------------------------------- *)
(* Values                                                                  *)
(* ---------------------------------------------------------------------- *)
None == <<>>
Some(x) == <<x>>

\* class TargetScope(Enum)
TargetScope_GLOBAL == 1
TargetScope_LOCAL == 2
\* GLOBAL | LOCAL: the two values have no bit in common, so | is +
TargetScope_BOTH == TargetScope_GLOBAL + TargetScope_LOCAL

TargetScope == {TargetScope_GLOBAL, TargetScope_LOCAL, TargetScope_BOTH}

\* BuildType.BUILD_NORMAL, the default of Target.__init__
BUILD_NORMAL == "BUILD_NORMAL"

\* the flag Target.__init__ adds to the global variant of a BOTH target
ALL_FLAG == "-all"

Mnemonics == {"build", "check"}
Flags == {"unit", ALL_FLAG}
FlagSets == SUBSET Flags
FlagArgs == {None} \cup {Some(F) : F \in FlagSets}
\* flag-sets a caller may ask get_target for
LookupFlagSets == SUBSET (Flags \cup {"all"})
Descs == {"help"}
BuildTypeArgs == {None, Some("BUILD_TESTING")}
BuildTargets == {"", "custom"}
\* the (builder, context, args) triple of one execute call
CallArgs == {"X", "Y"}
\* the caller's threads
Threads == {"main", "other"}

(* ---------------------------------------------------------------------- *)
(* Construction                                                            *)
(* ---------------------------------------------------------------------- *)
\* a freshly allocated instance of class cls, before any __init__ ran
Blank(cls) ==
    [cls |-> cls, mnemonic |-> None, desc |-> None, build_type |-> None,
     flags |-> None, scope |-> None, build_target |-> None,
     targets |-> None, delegate |-> None]

\* Register, were identities checked at insertion: a target whose
\* (mnemonic, flags) is registered already is not added
RegisterUnique(st, self) ==
    IF \E i \in DOMAIN st.ALL_TARGETS :
          /\ st.heap[st.ALL_TARGETS[i]].mnemonic = st.heap[self].mnemonic
          /\ st.heap[st.ALL_TARGETS[i]].flags = st.heap[self].flags
    THEN st
    ELSE [st EXCEPT !.ALL_TARGETS = Append(@, self)]

\* Register, were the new target put in front of the list
RegisterFront(st, self) == [st EXCEPT !.ALL_TARGETS = <<self>> \o @]

\* self.ALL_TARGETS.append(self)
Register(st, self) == [st EXCEPT !.ALL_TARGETS = Append(@, self)]

\* the flag-set Target.__init__ hands to the global delegator of a BOTH target
GlobalFlags(flags) ==
    LET new_flags == {ALL_FLAG}
    IN  IF flags # None /\ flags[1] # {} THEN new_flags \cup flags[1] ELSE new_flags

RECURSIVE Target__init__(_, _, _, _, _, _, _)
\* Target.__init__ on instance self of the store st = [heap, ALL_TARGETS]
Target__init__(st, self, mnemonic, desc, scope, build_type, flags) ==
    LET obj == [st.heap[self] EXCEPT
                  !.mnemonic = mnemonic,
                  !.desc = desc,
                  !.build_type = IF build_type # None THEN build_type[1]
                                 ELSE BUILD_NORMAL,
                  !.flags = IF flags # None THEN flags[1] ELSE {},
                  !.scope = scope]
        st1 == [st EXCEPT !.heap[self] = obj]
    IN  IF obj.scope # TargetScope_BOTH
        THEN Register(st1, self)
        ELSE LET \* DelegatorTarget(self, mnemonic, desc, TargetScope.LOCAL, build_type, flags)
                 d1 == Len(st1.heap) + 1
                 a1 == [st1 EXCEPT !.heap = Append(@, Blank("DelegatorTarget"))]
                 b1 == Target__init__(a1, d1, mnemonic, desc, TargetScope_LOCAL,
                                      build_type, flags)
                 c1 == [b1 EXCEPT !.heap[d1].delegate = self]
                 new_flags == GlobalFlags(flags)
                 \* DelegatorTarget(self, mnemonic, desc, TargetScope.GLOBAL, build_type, new_flags)
                 d2 == Len(c1.heap) + 1
                 a2 == [c1 EXCEPT !.heap = Append(@, Blank("DelegatorTarget"))]
                 b2 == Target__init__(a2, d2, mnemonic, desc, TargetScope_GLOBAL,
                                      build_type, Some(new_flags))
             IN  [b2 EXCEPT !.heap[d2].delegate = self]

\* allocate an instance of cls and run cls.__init__: super().__init__(...) first,
\* then the subclass's own field
Construct(st, cls, field, mnemonic, desc, scope, build_type, flags) ==
    LET self == Len(st.heap) + 1
        a == [st EXCEPT !.heap = Append(@, Blank(cls))]
        b == Target__init__(a, self, mnemonic, desc, scope, build_type, flags)
    IN  CASE cls = "BuildSystemTarget" -> [b EXCEPT !.heap[self].build_target = field]
          [] cls = "CompositeTarget"   -> [b EXCEPT !.heap[self].targets = field]
          [] cls = "DelegatorTarget"   -> [b EXCEPT !.heap[self].delegate = field]

Store == [heap |-> heap, ALL_TARGETS |-> ALL_TARGETS]

Idle == \A t \in Threads : stack[t] = <<>>

\* the caller constructs cls(field, mnemonic, desc, scope, build_type, flags),
\* as one of at most bound constructions
NewUpTo(bound, cls, field, mnemonic, desc, scope, build_type, flags) ==
    LET st == Construct(Store, cls, field, mnemonic, desc, scope, build_type, flags)
    IN  /\ declared < bound
        /\ declared' = declared + 1
        /\ heap' = st.heap
        /\ ALL_TARGETS' = st.ALL_TARGETS
        /\ ret' = [op |-> "construct", self |-> Len(heap) + 1]
        /\ UNCHANGED <<stack, exc, calls, log>>

New(cls, field, mnemonic, desc, scope, build_type, flags) ==
    NewUpTo(MaxConstruct, cls, field, mnemonic, desc, scope, build_type, flags)

(* ---------------------------------------------------------------------- *)
(* Registry queries                                                        *)
(* ---------------------------------------------------------------------- *)
\* Target.get_all_targets
get_all_targets == ALL_TARGETS

RECURSIVE reduce(_, _)
\* functools.reduce(lambda agg, item: agg.union(item.flags), sequence, initial)
reduce(sequence, initial) ==
    IF sequence = <<>> THEN initial
    ELSE reduce(Tail(sequence), initial \cup heap[Head(sequence)].flags)

\* get_all_possible_flags, were the aggregate dropped by the lambda: the
\* result is the flag-set of the last target
get_all_possible_flags_last ==
    IF get_all_targets = <<>> THEN {}
    ELSE heap[get_all_targets[Len(get_all_targets)]].flags

\* Target.get_all_possible_flags
get_all_possible_flags == reduce(get_all_targets, {})

\* matching, were the flags compared by inclusion
matching_subset(mnemonic, flags) ==
    SelectSeq(get_all_targets,
              LAMBDA target : heap[target].mnemonic = mnemonic
                              /\ flags \subseteq heap[target].flags)

\* the targets the loop of Target.get_target collects, in registry order
matching(mnemonic, flags) ==
    SelectSeq(get_all_targets,
              LAMBDA target : heap[target].mnemonic = mnemonic
                              /\ flags = heap[target].flags)

\* get_target, were the assertion on line 158 missing
get_target_first(mnemonic, flags) ==
    LET m == matching(mnemonic, flags)
    IN  IF m = <<>>
        THEN [outcome |-> "NoSuchTargetException"]
        ELSE [outcome |-> "return", target |-> m[1]]

\* Target.get_target: what the call does once the loop has collected matching
get_target(mnemonic, flags) ==
    LET m == matching(mnemonic, flags)
    IN  IF m = <<>>
        THEN [outcome |-> "NoSuchTargetException"]
        ELSE IF Len(m) # 1
             THEN [outcome |-> "AssertionError"]
             ELSE [outcome |-> "return", target |-> m[1]]

\* the orders in which iterating over the set S can yield its elements
Orders(S) ==
    {q \in [1..Cardinality(S) -> S] :
        \A i, j \in DOMAIN q : q[i] = q[j] => i = j}

\* str.join: the strings with the separator between each two
RECURSIVE join(_, _)
join(separator, strings) ==
    IF strings = <<>> THEN ""
    ELSE IF Len(strings) = 1 THEN strings[1]
    ELSE strings[1] \o separator \o join(separator, Tail(strings))

\* config_string, were the space put before the flags unconditionally
config_string_spaced(mnemonic, flags) ==
    mnemonic \o " " \o join(" ", [i \in DOMAIN flags |-> "--" \o flags[i]])

\* Target.config_string, lines 112-114; flags is the set in the order the
\* iteration of line 112 yields it
config_string(mnemonic, flags) ==
    LET joined == join(" ", [i \in DOMAIN flags |-> "--" \o flags[i]])
        flag_string == IF joined = "" THEN "" ELSE " " \o joined
    IN  mnemonic \o flag_string

\* the message of lines 155-157
NoSuchTargetException(mnemonic, flags) ==
    "Could not find target '" \o config_string(mnemonic, flags) \o "'"

GetTarget(mnemonic, flags) ==
    /\ \E order \in Orders(flags) :
          LET result == get_target(mnemonic, flags)
          IN  ret' = [op |-> "get_target", mnemonic |-> mnemonic, flags |-> flags,
                      result |-> IF result.outcome = "NoSuchTargetException"
                                 THEN [outcome |-> result.outcome,
                                       message |-> NoSuchTargetException(mnemonic, order)]
                                 ELSE result]
    /\ UNCHANGED <<heap, declared, ALL_TARGETS, stack, exc, calls, log>>

\* Target.config_string called by the caller
ConfigString(mnemonic, flags) ==
    /\ \E order \in Orders(flags) :
          ret' = [op |-> "config_string", mnemonic |-> mnemonic, flags |-> flags,
                  result |-> config_string(mnemonic, order)]
    /\ UNCHANGED <<heap, declared, ALL_TARGETS, stack, exc, calls, log>>

\* Target.__str__, lines 98-100
Str(self) ==
    /\ \E order \in Orders(heap[self].flags) :
          ret' = [op |-> "str", self |-> self,
                  result |-> config_string(heap[self].mnemonic, order)]
    /\ UNCHANGED <<heap, declared, ALL_TARGETS, stack, exc, calls, log>>

GetAllTargets ==
    /\ ret' = [op |-> "get_all_targets", result |-> get_all_targets]
    /\ UNCHANGED <<heap, declared, ALL_TARGETS, stack, exc, calls, log>>

\* GetAllPossibleFlags, were the union accumulated in place in the flags of
\* the first registered target
GetAllPossibleFlags_inplace ==
    /\ ret' = [op |-> "get_all_possible_flags", result |-> get_all_possible_flags]
    /\ heap' = IF ALL_TARGETS = <<>> THEN heap
               ELSE [heap EXCEPT ![ALL_TARGETS[1]].flags = get_all_possible_flags]
    /\ UNCHANGED <<declared, ALL_TARGETS, stack, exc, calls, log>>

\* Target.get_all_possible_flags called by the caller
GetAllPossibleFlags ==
    /\ ret' = [op |-> "get_all_possible_flags", result |-> get_all_possible_flags]
    /\ UNCHANGED <<heap, declared, ALL_TARGETS, stack, exc, calls, log>>

(* ---------------------------------------------------------------------- *)
(* execute: one action per step of the three execute methods               *)
(* ---------------------------------------------------------------------- *)
\* the statement a call of execute on an instance of cls starts at
Entry(cls) ==
    CASE cls = "BuildSystemTarget" -> "resolve"
      [] cls = "CompositeTarget"   -> "loop"
      [] cls = "DelegatorTarget"   -> "save"

\* the frame of target.execute(*args): its locals are unset, the loop of a
\* CompositeTarget stands before the first child
Frame(target, args) ==
    [self |-> target, args |-> args, pc |-> Entry(heap[target].cls),
     i |-> 1, old_scope |-> None, build_target |-> None]

Top(t) == stack[t][Len(stack[t])]
Running(t) == stack[t] # <<>>
At(t, cls, pc) ==
    /\ Running(t)
    /\ heap[Top(t).self].cls = cls
    /\ Top(t).pc = pc

Pop(s) == SubSeq(s, 1, Len(s) - 1)
SetTop(s, f) == [s EXCEPT ![Len(s)] = f]
\* the running method calls target.execute(*args) and goes on at pc afterwards
Invoke(s, pc, target, args) ==
    Append(SetTop(s, [s[Len(s)] EXCEPT !.pc = pc]), Frame(target, args))
\* the record log keeps of an entered execute: the instance, the arguments,
\* the depth of its frame, every instance's scope at that moment and whether
\* no other thread was inside an execute call then
Entered(t, target, args) ==
    [self |-> target, args |-> args, depth |-> Len(stack[t]) + 1,
     scopes |-> [o \in DOMAIN heap |-> heap[o].scope],
     serial |-> \A u \in Threads \ {t} : ~Running(u)]

\* the caller runs target.execute(builder, context, args) on thread t
Execute(t, target, args) ==
    /\ ~Running(t)
    /\ stack' = [stack EXCEPT ![t] = <<Frame(target, args)>>]
    /\ exc' = [exc EXCEPT ![t] = None]
    /\ calls' = [calls EXCEPT ![t] = <<>>]
    /\ log' = [log EXCEPT ![t] = <<Entered(t, target, args)>>]
    /\ UNCHANGED <<heap, declared, ALL_TARGETS, ret>>

\* resolve, were "all" substituted for every empty build_target
resolve_all(self) ==
    IF self.build_target # "" THEN self.build_target ELSE "all"

\* BuildSystemTarget.execute, line 195: the sub-target name
resolve(self) ==
    IF self.build_target # "" \/ self.scope = TargetScope_LOCAL
    THEN self.build_target
    ELSE "all"

BuildSystemTarget_resolve(t) ==
    /\ At(t, "BuildSystemTarget", "resolve")
    /\ exc[t] = None
    /\ stack' = [stack EXCEPT ![t] =
                   SetTop(@, [Top(t) EXCEPT !.build_target = Some(resolve(heap[Top(t).self])),
                                            !.pc = "build"])]
    /\ UNCHANGED <<heap, declared, ALL_TARGETS, ret, exc, calls, log>>

\* the arguments of builder.execute_build_target on line 196
BuilderCall(f) ==
    [build_target |-> f.build_target[1], args |-> f.args,
     is_global |-> (heap[f.self].scope = TargetScope_GLOBAL), by |-> f.self]

\* BuildSystemTarget.execute, line 196: the builder returns (ok) or raises
BuildSystemTarget_build(t, ok) ==
    /\ At(t, "BuildSystemTarget", "build")
    /\ exc[t] = None
    /\ calls' = [calls EXCEPT ![t] =
                   Append(@, [call |-> BuilderCall(Top(t)), raised |-> ~ok])]
    /\ exc' = [exc EXCEPT ![t] =
                 IF ok THEN None ELSE Some([builder_call |-> Len(calls[t]) + 1])]
    /\ stack' = [stack EXCEPT ![t] = Pop(@)]
    /\ UNCHANGED <<heap, declared, ALL_TARGETS, ret, log>>

\* NextChild, were the children taken last to first
NextChildReversed(f) == Len(heap[f.self].targets) - f.i + 1

\* the position of the child the loop of CompositeTarget.execute takes next
NextChild(f) == f.i

\* CompositeTarget.execute, lines 172-173: the next child, or the end of the loop
CompositeTarget_loop(t) ==
    /\ At(t, "CompositeTarget", "loop")
    /\ exc[t] = None
    /\ LET f == Top(t)
           targets == heap[f.self].targets
       IN  IF NextChild(f) \in DOMAIN targets
           THEN LET child == targets[NextChild(f)]
                IN  /\ stack' = [stack EXCEPT ![t] =
                          Invoke(SetTop(@, [f EXCEPT !.i = NextChild(f) + 1]),
                                 "loop", child, f.args)]
                    /\ log' = [log EXCEPT ![t] = Append(@, Entered(t, child, f.args))]
           ELSE /\ stack' = [stack EXCEPT ![t] = Pop(@)]
                /\ UNCHANGED log
    /\ UNCHANGED <<heap, declared, ALL_TARGETS, ret, exc, calls>>

\* what CompositeTarget.execute does with an exception of a child: nothing,
\* it leaves the method
CompositeTarget_raise(t) ==
    /\ At(t, "CompositeTarget", "loop")
    /\ exc[t] # None
    /\ stack' = [stack EXCEPT ![t] = Pop(@)]
    /\ UNCHANGED <<heap, declared, ALL_TARGETS, ret, exc, calls, log>>

\* DelegatorTarget_save, were the delegator's own scope saved
DelegatorTarget_save_own(t) ==
    /\ At(t, "DelegatorTarget", "save")
    /\ exc[t] = None
    /\ LET f == Top(t)
       IN  stack' = [stack EXCEPT ![t] =
                       SetTop(@, [f EXCEPT !.old_scope = Some(heap[f.self].scope),
                                           !.pc = "override"])]
    /\ UNCHANGED <<heap, declared, ALL_TARGETS, ret, exc, calls, log>>

\* DelegatorTarget.execute, line 212
DelegatorTarget_save(t) ==
    /\ At(t, "DelegatorTarget", "save")
    /\ exc[t] = None
    /\ LET f == Top(t)
           delegate == heap[f.self].delegate
       IN  stack' = [stack EXCEPT ![t] =
                       SetTop(@, [f EXCEPT !.old_scope = Some(heap[delegate].scope),
                                           !.pc = "override"])]
    /\ UNCHANGED <<heap, declared, ALL_TARGETS, ret, exc, calls, log>>

\* DelegatorTarget_override, were the delegate given its own scope again
DelegatorTarget_override_none(t) ==
    /\ At(t, "DelegatorTarget", "override")
    /\ exc[t] = None
    /\ stack' = [stack EXCEPT ![t] = SetTop(@, [Top(t) EXCEPT !.pc = "delegate"])]
    /\ UNCHANGED <<heap, declared, ALL_TARGETS, ret, exc, calls, log>>

\* DelegatorTarget_override, were the scope handed on to the children of a
\* composite delegate
DelegatorTarget_override_deep(t) ==
    /\ At(t, "DelegatorTarget", "override")
    /\ exc[t] = None
    /\ LET f == Top(t)
           delegate == heap[f.self].delegate
           reached == {delegate} \cup
                        {heap[delegate].targets[i] : i \in DOMAIN heap[delegate].targets}
       IN  /\ heap' = [o \in DOMAIN heap |->
                        IF o \in reached
                        THEN [heap[o] EXCEPT !.scope = heap[f.self].scope]
                        ELSE heap[o]]
           /\ stack' = [stack EXCEPT ![t] = SetTop(@, [f EXCEPT !.pc = "delegate"])]
    /\ UNCHANGED <<declared, ALL_TARGETS, ret, exc, calls, log>>

\* DelegatorTarget.execute, line 215
DelegatorTarget_override(t) ==
    /\ At(t, "DelegatorTarget", "override")
    /\ exc[t] = None
    /\ LET f == Top(t)
           delegate == heap[f.self].delegate
       IN  /\ heap' = [heap EXCEPT ![delegate].scope = heap[f.self].scope]
           /\ stack' = [stack EXCEPT ![t] = SetTop(@, [f EXCEPT !.pc = "delegate"])]
    /\ UNCHANGED <<declared, ALL_TARGETS, ret, exc, calls, log>>

\* DelegatorTarget.execute, line 216
DelegatorTarget_delegate(t) ==
    /\ At(t, "DelegatorTarget", "delegate")
    /\ exc[t] = None
    /\ LET f == Top(t)
           delegate == heap[f.self].delegate
       IN  /\ stack' = [stack EXCEPT ![t] = Invoke(@, "finally", delegate, f.args)]
           /\ log' = [log EXCEPT ![t] = Append(@, Entered(t, delegate, f.args))]
    /\ UNCHANGED <<heap, declared, ALL_TARGETS, ret, exc, calls>>

\* Restored, were the delegate left with the delegator's scope
RestoredNot(f) == heap[f.self].scope

\* the scope the finally clause of DelegatorTarget.execute writes back
Restored(f) == f.old_scope[1]

\* DelegatorTarget_finally, were the return on line 219 inside the finally
\* clause: it would end the exception
DelegatorTarget_finally_return(t) ==
    /\ At(t, "DelegatorTarget", "finally")
    /\ LET f == Top(t)
           delegate == heap[f.self].delegate
       IN  heap' = [heap EXCEPT ![delegate].scope = f.old_scope[1]]
    /\ stack' = [stack EXCEPT ![t] = Pop(@)]
    /\ exc' = [exc EXCEPT ![t] = None]
    /\ UNCHANGED <<declared, ALL_TARGETS, ret, calls, log>>

\* DelegatorTarget_finally, were the restoration written after the call
\* instead of in a finally clause: an exception would skip it
DelegatorTarget_finally_skipped(t) ==
    /\ At(t, "DelegatorTarget", "finally")
    /\ LET f == Top(t)
           delegate == heap[f.self].delegate
       IN  heap' = IF exc[t] = None
                   THEN [heap EXCEPT ![delegate].scope = f.old_scope[1]]
                   ELSE heap
    /\ stack' = [stack EXCEPT ![t] = Pop(@)]
    /\ UNCHANGED <<declared, ALL_TARGETS, ret, exc, calls, log>>

\* DelegatorTarget.execute, lines 217-219: the finally clause, run when the
\* delegate returned and when it raised; then the method returns or the
\* exception goes on to its caller
DelegatorTarget_finally(t) ==
    /\ At(t, "DelegatorTarget", "finally")
    /\ LET f == Top(t)
           delegate == heap[f.self].delegate
       IN  heap' = [heap EXCEPT ![delegate].scope = Restored(f)]
    /\ stack' = [stack EXCEPT ![t] = Pop(@)]
    /\ UNCHANGED <<declared, ALL_TARGETS, ret, exc, calls, log>>

\* a step of the execute of a build-system target or of a delegator
LeafStep(t) ==
    \/ BuildSystemTarget_resolve(t)
    \/ \E ok \in BOOLEAN : BuildSystemTarget_build(t, ok)
    \/ DelegatorTarget_save(t)
    \/ DelegatorTarget_override(t)
    \/ DelegatorTarget_delegate(t)
    \/ DelegatorTarget_finally(t)

Step(t) ==
    \/ LeafStep(t)
    \/ CompositeTarget_loop(t)
    \/ CompositeTarget_raise(t)

(* ---------------------------------------------------------------------- *)
(* The registry specification: a caller that declares build-system         *)
(* targets and queries the registry                                        *)
(* ---------------------------------------------------------------------- *)
Init ==
    /\ heap = <<>>
    /\ declared = 0
    /\ ALL_TARGETS = <<>>
    /\ ret = [op |-> "start"]
    /\ stack = [t \in Threads |-> <<>>]
    /\ exc = [t \in Threads |-> None]
    /\ calls = [t \in Threads |-> <<>>]
    /\ log = [t \in Threads |-> <<>>]

\* this caller leaves build_type to its default
NewTarget ==
    \E m \in Mnemonics, s \in TargetScope, f \in FlagArgs, d \in Descs :
        New("BuildSystemTarget", "", m, d, s, None, f)

Lookup == \E m \in Mnemonics, F \in LookupFlagSets : GetTarget(m, F)

Next ==
    \/ NewTarget
    \/ Lookup
    \/ GetAllTargets
    \/ GetAllPossibleFlags

Spec == Init /\ [][Next]_vars

(* ---------------------------------------------------------------------- *)
(* The execution specification: a single-threaded caller that builds       *)
(* targets of all three classes and executes them one call at a time       *)
(* ---------------------------------------------------------------------- *)
MainThread == "main"

\* sequences of at most n elements of S
RECURSIVE SeqUpTo(_, _)
SeqUpTo(S, n) ==
    IF n = 0 THEN {<<>>}
    ELSE LET shorter == SeqUpTo(S, n - 1)
         IN  shorter \cup {Append(q, x) : q \in shorter, x \in S}

NewBuildSystemTarget ==
    \E s \in TargetScope, b \in BuildTargets, d \in Descs, bt \in BuildTypeArgs :
        /\ Idle
        /\ New("BuildSystemTarget", b, "build", d, s, bt, None)

NewCompositeTarget ==
    \E s \in TargetScope, d \in Descs, targets \in SeqUpTo(DOMAIN heap, MaxChildren) :
        /\ Idle
        /\ New("CompositeTarget", targets, "build", d, s, None, None)

NewDelegatorTarget ==
    \E s \in TargetScope, d \in Descs, delegate \in DOMAIN heap :
        /\ Idle
        /\ New("DelegatorTarget", delegate, "build", d, s, None, None)

Call ==
    \E target \in DOMAIN heap, a \in CallArgs :
        /\ Idle
        /\ Execute(MainThread, target, a)

Run == Step(MainThread)

NextExec ==
    \/ NewBuildSystemTarget
    \/ NewCompositeTarget
    \/ NewDelegatorTarget
    \/ Call
    \/ Run

SpecExec == Init /\ [][NextExec]_vars

(* ---------------------------------------------------------------------- *)
(* The concurrent specification: two threads that each make one execute    *)
(* call on the targets built before, their steps interleaved freely        *)
(* ---------------------------------------------------------------------- *)
\* the threads that have made their call
Called == {t \in Threads : log[t] # <<>>}

\* the build-system targets are declared before the first call
BuildFirst ==
    \E s \in TargetScope, b \in BuildTargets, d \in Descs :
        /\ Called = {}
        /\ New("BuildSystemTarget", b, "build", d, s, None, None)

CallConcurrently ==
    \E t \in Threads, target \in DOMAIN heap, a \in CallArgs :
        /\ log[t] = <<>>
        /\ Execute(t, target, a)

\* no composite is built here, so the steps are those of the other two classes
RunConcurrently == \E t \in Threads : LeafStep(t)

NextConc ==
    \/ BuildFirst
    \/ CallConcurrently
    \/ RunConcurrently

SpecConc == Init /\ [][NextConc]_vars

(* ---------------------------------------------------------------------- *)
(* The display specification: a caller that declares build-system targets  *)
(* and renders them, and the identities it looks up, as strings            *)
(* ---------------------------------------------------------------------- *)
Render == \E m \in Mnemonics, F \in LookupFlagSets : ConfigString(m, F)

Show == \E self \in DOMAIN heap : Str(self)

NextDisplay ==
    \/ NewTarget
    \/ Lookup
    \/ Render
    \/ Show

SpecDisplay == Init /\ [][NextDisplay]_vars

(* ---------------------------------------------------------------------- *)
(* The nesting specification: a single-threaded caller that declares       *)
(* build-system targets and delegators under one mnemonic and composites   *)
(* of one child under another, looks identities up and executes what it    *)
(* finds                                                                   *)
(* ---------------------------------------------------------------------- *)
DeclareLeaf ==
    \E s \in TargetScope, d \in Descs :
        /\ Idle
        /\ NewUpTo(MaxNested, "BuildSystemTarget", "", "build", d, s, None, None)

DeclareDelegator ==
    \E s \in TargetScope, d \in Descs, delegate \in DOMAIN heap :
        /\ Idle
        /\ NewUpTo(MaxNested, "DelegatorTarget", delegate, "build", d, s, None, None)

DeclareComposite ==
    \E s \in TargetScope, d \in Descs, child \in DOMAIN heap :
        /\ Idle
        /\ NewUpTo(MaxNested, "CompositeTarget", <<child>>, "check", d, s, None, None)

FindDeclared ==
    \E m \in Mnemonics, F \in SUBSET {ALL_FLAG, "all"} :
        /\ Idle
        /\ GetTarget(m, F)

\* the caller asks for the registry or for its flags
Query == Idle /\ (GetAllTargets \/ GetAllPossibleFlags)

\* the caller executes the target that get_target has just returned
Dispatch ==
    \E a \in CallArgs :
        /\ ret.op = "get_target"
        /\ ret.result.outcome = "return"
        /\ Execute(MainThread, ret.result.target, a)

NextNested ==
    \/ DeclareLeaf
    \/ DeclareDelegator
    \/ DeclareComposite
    \/ FindDeclared
    \/ Query
    \/ Dispatch
    \/ Run

SpecNested == Init /\ [][NextNested]_vars

(* ---------------------------------------------------------------------- *)
(* Properties of the registry                                              *)
(* ---------------------------------------------------------------------- *)
Registered == {ALL_TARGETS[i] : i \in DOMAIN ALL_TARGETS}

\* the places of the registry that hold a target of identity (m, F)
PlacesIn(registry, objects, m, F) ==
    {i \in DOMAIN registry : /\ objects[registry[i]].mnemonic = m
                             /\ objects[registry[i]].flags = F}
Places(m, F) == PlacesIn(ALL_TARGETS, heap, m, F)

IsPrefix(p, q) == Len(p) <= Len(q) /\ SubSeq(q, 1, Len(p)) = p

\* this step is a constructor call of the caller
Constructs == declared' = declared + 1
\* the instance a constructor call of this step allocates first
NewSelf == Len(heap) + 1

\* C1: get_target(m, F) returns the registered target whose mnemonic is m and
\* whose flag-set equals F when there is exactly one, and raises
\* NoSuchTargetException, returning nothing, when there is none.
C1_LookupCorrect ==
    ret.op = "get_target" =>
        LET P == Places(ret.mnemonic, ret.flags)
        IN  /\ Cardinality(P) = 1 =>
                ret.result = [outcome |-> "return",
                              target |-> ALL_TARGETS[CHOOSE i \in P : TRUE]]
            /\ P = {} =>
                /\ ret.result.outcome = "NoSuchTargetException"
                /\ "target" \notin DOMAIN ret.result

\* a lookup that returned its target although a registered target of the same
\* mnemonic carries a strict superset of the flags, and another a strict subset
C1_Witness ==
    /\ ret.op = "get_target"
    /\ ret.result.outcome = "return"
    /\ \E a, b \in Registered :
          /\ heap[a].mnemonic = ret.mnemonic
          /\ heap[b].mnemonic = ret.mnemonic
          /\ heap[a].flags \subseteq ret.flags /\ heap[a].flags # ret.flags
          /\ ret.flags \subseteq heap[b].flags /\ heap[b].flags # ret.flags

\* C2 as claimed: no two registered targets share (mnemonic, flags).
C2_Uniqueness ==
    \A i, j \in DOMAIN ALL_TARGETS :
        i # j => \/ heap[ALL_TARGETS[i]].mnemonic # heap[ALL_TARGETS[j]].mnemonic
                 \/ heap[ALL_TARGETS[i]].flags # heap[ALL_TARGETS[j]].flags

\* C2 as amended: the identity of a target that get_target returns is carried
\* by no second registered target.
C2_UniqueWhenReturned ==
    (ret.op = "get_target" /\ ret.result.outcome = "return") =>
        \A i, j \in Places(ret.mnemonic, ret.flags) : i = j

\* a lookup that returned its target from a registry in which two other
\* targets share an identity
C2_Witness ==
    /\ ret.op = "get_target"
    /\ ret.result.outcome = "return"
    /\ ~C2_Uniqueness

\* C3 as claimed: constructing a BOTH target of identity (m, F) adds exactly two
\* targets to the registry, both delegators of the constructed instance: one
\* of identity (m, F) and scope LOCAL, then one of identity (m, F plus "all")
\* and scope GLOBAL; the constructed instance is not registered and no
\* get_target call returns it.
C3_BothSynthesis ==
    [][(Constructs /\ heap'[NewSelf].scope = TargetScope_BOTH) =>
         LET self == NewSelf
             l == heap'[self + 1]
             g == heap'[self + 2]
         IN  /\ Len(heap') = self + 2
             /\ ALL_TARGETS' = ALL_TARGETS \o <<self + 1, self + 2>>
             /\ l.cls = "DelegatorTarget" /\ l.delegate = self
             /\ l.mnemonic = heap'[self].mnemonic
             /\ l.flags = heap'[self].flags
             /\ l.scope = TargetScope_LOCAL
             /\ g.cls = "DelegatorTarget" /\ g.delegate = self
             /\ g.mnemonic = heap'[self].mnemonic
             /\ g.flags = heap'[self].flags \cup {"all"}
             /\ g.scope = TargetScope_GLOBAL
             /\ \A m \in Mnemonics, F \in LookupFlagSets :
                   get_target(m, F)' # [outcome |-> "return", target |-> self]
      ]_vars

\* C7: a second non-BOTH target of an identity that is registered already is
\* constructed and registered like any other, the first one staying; from then
\* on get_target for that identity fails its assertion, and get_target for an
\* identity that one registered target carries returns that target.
C7_DuplicatesFoundAtLookup ==
    [][/\ (Constructs /\ heap'[NewSelf].scope # TargetScope_BOTH
             /\ Places(heap'[NewSelf].mnemonic, heap'[NewSelf].flags) # {})
          => ALL_TARGETS' = Append(ALL_TARGETS, NewSelf)
       /\ ret'.op = "get_target" =>
            LET P == PlacesIn(ALL_TARGETS', heap', ret'.mnemonic, ret'.flags)
            IN  /\ Cardinality(P) > 1 => ret'.result = [outcome |-> "AssertionError"]
                /\ Cardinality(P) = 1 =>
                     /\ ret'.result.outcome = "return"
                     /\ ret'.result.target \in {ALL_TARGETS'[i] : i \in P}
      ]_vars

\* a lookup that failed its assertion: the last registered target is a
\* non-BOTH target constructed with an identity that was registered before
C7_Witness ==
    /\ ret.op = "get_target"
    /\ ret.result.outcome = "AssertionError"
    /\ LET last == ALL_TARGETS[Len(ALL_TARGETS)]
       IN  /\ heap[last].cls = "BuildSystemTarget"
           /\ last \in {ALL_TARGETS[i] : i \in Places(ret.mnemonic, ret.flags)}
    /\ \E m \in Mnemonics, F \in FlagSets : Cardinality(Places(m, F)) = 1

\* C9: get_all_possible_flags() is the union of the flag-sets of the
\* registered targets, it never loses a flag, and it holds every flag of a
\* target once that target is constructed.
C9_FlagUnion ==
    [][/\ ret'.op = "get_all_possible_flags" =>
            ret'.result = UNION {heap'[o].flags : o \in Registered'}
       /\ get_all_possible_flags \subseteq get_all_possible_flags'
       /\ Constructs => heap'[NewSelf].flags \subseteq get_all_possible_flags'
      ]_vars

\* the union asked for when a plain target and the two delegators of a BOTH
\* target are registered, the flag of the global delegator among the result
C9_Witness ==
    /\ ret.op = "get_all_possible_flags"
    /\ Len(ALL_TARGETS) = 3
    /\ ALL_FLAG \in ret.result
    /\ \E o \in Registered : heap[o].flags # ret.result /\ heap[o].flags # {}

\* C10: get_all_targets() is the registry, in registration order; the
\* registry only grows at its end; a non-BOTH construction appends the new
\* instance, a BOTH construction its LOCAL delegator and then its GLOBAL one.
C10_RegistrationOrder ==
    [][/\ IsPrefix(ALL_TARGETS, ALL_TARGETS')
       /\ ~Constructs => ALL_TARGETS' = ALL_TARGETS
       /\ (Constructs /\ heap'[NewSelf].scope # TargetScope_BOTH)
            => ALL_TARGETS' = Append(ALL_TARGETS, NewSelf)
       /\ (Constructs /\ heap'[NewSelf].scope = TargetScope_BOTH)
            => /\ ALL_TARGETS' = ALL_TARGETS \o <<NewSelf + 1, NewSelf + 2>>
               /\ heap'[NewSelf + 1].scope = TargetScope_LOCAL
               /\ heap'[NewSelf + 2].scope = TargetScope_GLOBAL
       /\ ret'.op = "get_all_targets" =>
            /\ ret'.result = ALL_TARGETS'
            /\ \A i, j \in DOMAIN ret'.result :
                  i < j => ret'.result[i] < ret'.result[j]
      ]_vars

\* the list asked for after a plain target and then a BOTH target were built
C10_Witness ==
    /\ ret.op = "get_all_targets"
    /\ Len(ret.result) = 3
    /\ heap[ret.result[1]].cls = "BuildSystemTarget"
    /\ heap[ret.result[2]].scope = TargetScope_LOCAL
    /\ heap[ret.result[3]].scope = TargetScope_GLOBAL
    /\ heap[ret.result[2]].delegate = heap[ret.result[3]].delegate

(* ---------------------------------------------------------------------- *)
(* Properties of execute                                                   *)
(* ---------------------------------------------------------------------- *)
Max(S) == CHOOSE x \in S : \A y \in S : y <= x

\* the place in log[t] of the entry of the frame that is at depth d now
EntryOf(t, d) == Max({k \in DOMAIN log[t] : log[t][k].depth = d})

\* the execute calls the frame at depth d of thread t has made so far
InvokedBy(t, d) ==
    SelectSeq(SubSeq(log[t], EntryOf(t, d) + 1, Len(log[t])),
              LAMBDA e : e.depth = d + 1)

\* thread t takes a step of the method of class cls on top of its stack
StepsIn(t, cls) ==
    /\ Running(t)
    /\ heap[Top(t).self].cls = cls
    /\ stack'[t] # stack[t]

\* the target of the outermost execute call of thread t
Outermost(t) == log[t][1].self

\* C4: when the execute of a delegator X ends, its delegate has the scope it
\* had when X.execute was entered, whether the delegate returned or raised;
\* an exception of the delegate leaves X.execute only together with the
\* restoration, and unchanged.
C4_ScopeRestored ==
    [][\A t \in Threads :
         (StepsIn(t, "DelegatorTarget") /\ Len(stack'[t]) < Len(stack[t])) =>
            LET delegate == heap[Top(t).self].delegate
                entry == log[t][EntryOf(t, Len(stack[t]))]
            IN  /\ heap'[delegate].scope = entry.scopes[delegate]
                /\ exc'[t] = exc[t]
      ]_vars

\* the execute of a delegator has ended with the exception of its delegate,
\* whose scope differs from the delegator's and is what it was before
C4_Witness ==
    LET t == MainThread
    IN  /\ ~Running(t) /\ log[t] # <<>>
        /\ exc[t] # None
        /\ heap[Outermost(t)].cls = "DelegatorTarget"
        /\ LET delegate == heap[Outermost(t)].delegate
           IN  /\ heap[delegate].scope # heap[Outermost(t)].scope
               /\ heap[delegate].scope = log[t][1].scopes[delegate]

\* C5: a CompositeTarget calls execute on its children in list order, each
\* with the arguments it got itself; when a child raises, no later child is
\* called and the exception leaves the composite unchanged; when none
\* raises, every child is called once and the composite returns.
C5_CompositeFanOut ==
    [][\A t \in Threads :
         StepsIn(t, "CompositeTarget") =>
            LET d == Len(stack[t])
                f == Top(t)
                targets == heap[f.self].targets
                done == InvokedBy(t, d)
            IN  /\ Len(done) <= Len(targets)
                /\ \A k \in DOMAIN done : /\ done[k].self = targets[k]
                                           /\ done[k].args = f.args
                /\ (exc[t] = None /\ Len(done) < Len(targets)) =>
                      /\ Len(stack'[t]) = d + 1
                      /\ stack'[t][d + 1].self = targets[Len(done) + 1]
                      /\ stack'[t][d + 1].args = f.args
                      /\ Len(log'[t]) = Len(log[t]) + 1
                /\ (exc[t] = None /\ Len(done) = Len(targets)) =>
                      /\ stack'[t] = Pop(stack[t])
                      /\ exc'[t] = None
                      /\ log'[t] = log[t]
                /\ exc[t] # None =>
                      /\ stack'[t] = Pop(stack[t])
                      /\ exc'[t] = exc[t]
                      /\ log'[t] = log[t]
                      /\ calls'[t] = calls[t]
      ]_vars

\* the execute of a composite of two different children has ended with the
\* exception of the first child, the second never called
C5_Witness ==
    LET t == MainThread
    IN  /\ ~Running(t) /\ log[t] # <<>>
        /\ exc[t] # None
        /\ heap[Outermost(t)].cls = "CompositeTarget"
        /\ Len(heap[Outermost(t)].targets) = 2
        /\ heap[Outermost(t)].targets[1] # heap[Outermost(t)].targets[2]
        /\ Len(SelectSeq(log[t], LAMBDA e : e.depth = 2)) = 1

\* the execute calls of log[t] that are calls of BuildSystemTarget.execute
BuildSystemEntries(t) ==
    SelectSeq(log[t], LAMBDA e : heap[e.self].cls = "BuildSystemTarget")

\* C6: BuildSystemTarget.execute calls the builder once, with its own
\* arguments, with is_global true exactly when its scope is GLOBAL, and with
\* the name build_target when that is not empty, "" when it is empty and the
\* scope is LOCAL, "all" when it is empty and the scope is GLOBAL.
C6_DefaultSubstitution ==
    [][\A t \in Threads :
         /\ StepsIn(t, "BuildSystemTarget") =>
              LET f == Top(t)
                  self == heap[f.self]
              IN  \/ /\ calls'[t] = calls[t]
                     /\ Len(stack'[t]) = Len(stack[t])
                     /\ InvokedBy(t, Len(stack[t])) = <<>>
                  \/ /\ Len(calls'[t]) = Len(calls[t]) + 1
                     /\ stack'[t] = Pop(stack[t])
                     /\ LET c == calls'[t][Len(calls'[t])].call
                        IN  /\ c.args = f.args
                            /\ c.is_global = (self.scope = TargetScope_GLOBAL)
                            /\ self.build_target # "" =>
                                 c.build_target = self.build_target
                            /\ (self.build_target = ""
                                  /\ self.scope = TargetScope_LOCAL) =>
                                 c.build_target = ""
                            /\ (self.build_target = ""
                                  /\ self.scope = TargetScope_GLOBAL) =>
                                 c.build_target = "all"
         /\ ~Running(t)' =>
              /\ Len(calls'[t]) = Len(BuildSystemEntries(t)')
              /\ \A k \in DOMAIN calls'[t] :
                    calls'[t][k].call.by = BuildSystemEntries(t)'[k].self
      ]_vars

\* a target with an empty build_target has called the builder with "" under
\* the scope LOCAL
C6_Witness ==
    LET t == MainThread
    IN  /\ ~Running(t) /\ log[t] # <<>>
        /\ heap[Outermost(t)].cls = "BuildSystemTarget"
        /\ heap[Outermost(t)].build_target = ""
        /\ heap[Outermost(t)].scope = TargetScope_LOCAL
        /\ Len(calls[t]) = 1
        /\ calls[t][1].call.build_target = ""
        /\ ~calls[t][1].call.is_global

\* C8: a builder call that raised is the last builder call of its execute,
\* and its exception is what every method up to the outermost execute is
\* left with.
C8_FailurePropagates ==
    \A t \in Threads :
        \A k \in DOMAIN calls[t] :
            calls[t][k].raised =>
                /\ k = Len(calls[t])
                /\ exc[t] = Some([builder_call |-> k])

\* the execute of a composite has ended with the exception of the second
\* builder call, made below a delegator
C8_Witness ==
    LET t == MainThread
    IN  /\ ~Running(t) /\ log[t] # <<>>
        /\ heap[Outermost(t)].cls = "CompositeTarget"
        /\ Len(calls[t]) = 2
        /\ exc[t] = Some([builder_call |-> 2])
        /\ \E k \in DOMAIN log[t] : heap[log[t][k].self].cls = "DelegatorTarget"

(* ---------------------------------------------------------------------- *)
(* Properties of the scope field                                           *)
(* ---------------------------------------------------------------------- *)
LocalOrGlobal == {TargetScope_LOCAL, TargetScope_GLOBAL}

\* C11 as claimed: every instance, registered or not, has the scope LOCAL or
\* GLOBAL, never BOTH.
C11_NeverBoth ==
    \A o \in DOMAIN heap : heap[o].scope \in LocalOrGlobal

\* C11 as amended: while no execute call is in progress every registered
\* target has the scope LOCAL or GLOBAL, and the instances that are not
\* registered, the originals of the BOTH declarations, have the scope BOTH.
C11_BothOnlyUnregistered ==
    Idle => \A o \in DOMAIN heap :
               IF o \in Registered
               THEN heap[o].scope \in LocalOrGlobal
               ELSE heap[o].scope = TargetScope_BOTH

\* an execute of a delegator of a BOTH original has ended with an exception,
\* and the original has the scope BOTH again
C11_Witness ==
    LET t == MainThread
    IN  /\ Idle /\ log[t] # <<>>
        /\ exc[t] # None
        /\ heap[Outermost(t)].cls = "DelegatorTarget"
        /\ Outermost(t) \in Registered
        /\ heap[Outermost(t)].delegate \notin Registered
        /\ heap[heap[Outermost(t)].delegate].scope = TargetScope_BOTH

\* the place in log[t] of the entry of the execute that made the call
\* entered at place k
CallerOf(t, k) ==
    Max({j \in 1..(k - 1) : log[t][j].depth = log[t][k].depth - 1})

\* no two execute calls have overlapped: each was entered while no other
\* thread was inside one
Serialized == \A t \in Called : log[t][1].serial

\* a delegate was entered on thread t, at place k of the log, with a scope
\* other than the scope of the delegator that called it
Misexecuted(t, k) ==
    /\ log[t][k].depth > 1
    /\ LET caller == log[t][CallerOf(t, k)].self
       IN  /\ heap[caller].cls = "DelegatorTarget"
           /\ log[t][k].scopes[log[t][k].self] # log[t][k].scopes[caller]

\* the scope of instance o differs from the scope it had when a call that
\* was entered with no other call in progress began
Displaced(o) ==
    \E t \in Called :
        /\ log[t][1].serial
        /\ o \in DOMAIN log[t][1].scopes
        /\ heap[o].scope # log[t][1].scopes[o]

\* C12: when the execute calls of the two threads are serialized, no delegate
\* is entered with a scope other than its delegator's and, once the calls are
\* over, every instance has the scope it had before them; the interleaved
\* calls of the witness reach both.
C12_SerializedIsSafe ==
    Serialized =>
        /\ \A t \in Called : \A k \in DOMAIN log[t] : ~Misexecuted(t, k)
        /\ Idle => \A o \in DOMAIN heap : ~Displaced(o)

\* two interleaved calls touching one delegate are over: the delegate was
\* entered with a scope other than its delegator's, and it is left with a
\* scope other than the one it had before both calls
C12_Witness ==
    /\ Idle /\ Called = Threads
    /\ ~Serialized
    /\ \E t \in Threads : \E k \in DOMAIN log[t] :
          /\ Misexecuted(t, k)
          /\ Displaced(log[t][k].self)

(* ---------------------------------------------------------------------- *)
(* Properties of the display string                                        *)
(* ---------------------------------------------------------------------- *)
\* the mnemonic followed, for each flag of the sequence q, by one space and
\* the flag after two dashes
RECURSIVE Rendered(_, _)
Rendered(m, q) ==
    IF q = <<>> THEN m
    ELSE Rendered(m, SubSeq(q, 1, Len(q) - 1)) \o " --" \o q[Len(q)]

\* the renderings of (m, F): each flag of F exactly once, in some order
Renderings(m, F) == {Rendered(m, q) : q \in Orders(F)}

\* C13: config_string(m, F) and str(target) are the mnemonic followed, for
\* each flag exactly once, by a space and "--" and the flag, which is the bare
\* mnemonic when there is no flag; the NoSuchTargetException of get_target(m, F)
\* carries this rendering of (m, F).
C13_DisplayString ==
    /\ ret.op = "config_string" =>
          /\ ret.result \in Renderings(ret.mnemonic, ret.flags)
          /\ ret.flags = {} => ret.result = ret.mnemonic
    /\ ret.op = "str" =>
          /\ ret.result \in Renderings(heap[ret.self].mnemonic, heap[ret.self].flags)
          /\ heap[ret.self].flags = {} => ret.result = heap[ret.self].mnemonic
    /\ (ret.op = "get_target" /\ ret.result.outcome = "NoSuchTargetException") =>
          ret.result.message \in
             {"Could not find target '" \o r \o "'" :
                 r \in Renderings(ret.mnemonic, ret.flags)}

\* the lookup of an identity of one flag has failed, and the message carries
\* the mnemonic, one space, two dashes and the flag
C13_Witness ==
    /\ ret.op = "get_target"
    /\ ret.result.outcome = "NoSuchTargetException"
    /\ ret.mnemonic = "build" /\ ret.flags = {"unit"}
    /\ ret.result.message = "Could not find target 'build --unit'"

(* ---------------------------------------------------------------------- *)
(* Properties of lookup followed by execute                                *)
(* ---------------------------------------------------------------------- *)
\* the execute of the target that the last get_target returned is over
Dispatched ==
    /\ ret.op = "get_target" /\ ret.result.outcome = "return"
    /\ Idle /\ log[MainThread] # <<>>
    /\ Outermost(MainThread) = ret.result.target

\* the builder calls of the main thread, as (name, is_global) pairs
BuilderCalls ==
    [k \in DOMAIN calls[MainThread] |->
        <<calls[MainThread][k].call.build_target,
          calls[MainThread][k].call.is_global>>]

\* C14 as claimed: after the one construction of a BuildSystemTarget of scope
\* BOTH, mnemonic m, flags F and empty build_target, get_target(m, F) returns
\* a target whose execute calls the builder once with ("", false), and
\* get_target(m, F plus "all") returns a target whose execute calls the
\* builder once with ("all", true).
C14_BothDispatch ==
    \A o \in DOMAIN heap :
        ( /\ declared = 1
          /\ heap[o].cls = "BuildSystemTarget" /\ heap[o].build_target = ""
          /\ o \notin Registered
          /\ ret.op = "get_target" /\ ret.mnemonic = heap[o].mnemonic ) =>
            /\ ret.flags = heap[o].flags =>
                  /\ ret.result.outcome = "return"
                  /\ Dispatched => BuilderCalls = << <<"", FALSE>> >>
            /\ ret.flags = heap[o].flags \cup {"all"} =>
                  /\ ret.result.outcome = "return"
                  /\ Dispatched => BuilderCalls = << <<"all", TRUE>> >>

(* ---------------------------------------------------------------------- *)
(* Properties of the scope field between execute calls                     *)
(* ---------------------------------------------------------------------- *)
\* C15: between serialized execute calls every instance keeps its scope: a
\* step taken while no execute is in progress changes no scope, and when the
\* outermost execute ends, having returned or raised, every instance has the
\* scope it had when that execute began; so the scope of an instance at rest
\* is the scope its construction gave it.
C15_QuiescentScopes ==
    [][ /\ Idle =>
            \A o \in DOMAIN heap : heap'[o].scope = heap[o].scope
        /\ (~Idle /\ Idle') =>
            \A o \in DOMAIN heap :
                heap'[o].scope = log[MainThread][1].scopes[o]
        /\ (Idle /\ ~Idle') =>
            log'[MainThread][1].scopes = [o \in DOMAIN heap |-> heap[o].scope]
      ]_vars

\* the execute of a composite of two delegators sharing one delegate is over,
\* after both delegators ran the delegate under scopes other than its own
C15_Witness ==
    LET t == MainThread
    IN  /\ Idle /\ log[t] # <<>>
        /\ heap[Outermost(t)].cls = "CompositeTarget"
        /\ Len(calls[t]) = 2
        /\ LET children == heap[Outermost(t)].targets
           IN  /\ Len(children) = 2
               /\ children[1] # children[2]
               /\ \A i \in 1..2 : heap[children[i]].cls = "DelegatorTarget"
               /\ heap[children[1]].delegate = heap[children[2]].delegate
               /\ heap[children[1]].scope # heap[children[2]].scope
               /\ heap[heap[children[1]].delegate].scope = TargetScope_BOTH

(* ---------------------------------------------------------------------- *)
(* What lookup and execute leave alone                                     *)
(* ---------------------------------------------------------------------- *)
\* C16: get_target, whatever its outcome, get_all_targets,
\* get_all_possible_flags and every step of every execute leave the registry
\* as it is and the mnemonic, flags, description and build type of every
\* target as they are; only a construction changes the registry, and only a
\* step of a delegator's execute changes a scope.
C16_Frame ==
    [][ /\ ~Constructs =>
            /\ ALL_TARGETS' = ALL_TARGETS
            /\ DOMAIN heap' = DOMAIN heap
        /\ \A o \in DOMAIN heap :
            /\ heap'[o].mnemonic = heap[o].mnemonic
            /\ heap'[o].flags = heap[o].flags
            /\ heap'[o].desc = heap[o].desc
            /\ heap'[o].build_type = heap[o].build_type
            /\ heap'[o].scope # heap[o].scope =>
                  StepsIn(MainThread, "DelegatorTarget")
      ]_vars

\* the execute of a looked-up delegator is over, its builder call having
\* raised, in a registry of four targets
C16_Witness ==
    /\ Dispatched
    /\ exc[MainThread] # None
    /\ heap[ret.result.target].cls = "DelegatorTarget"
    /\ Len(ALL_TARGETS) = 4

(* ---------------------------------------------------------------------- *)
(* The two delegators of a BOTH declaration                                *)
(* ---------------------------------------------------------------------- *)
\* C17 as claimed: the two delegators registered by one BOTH construction
\* never carry the same (mnemonic, flags), whatever the flags of the
\* declaration, so after a single BOTH construction on an empty registry no
\* lookup fails the assertion that its match is single.
C17_VariantsDiffer ==
    /\ \A a, b \in Registered :
          ( /\ a # b
            /\ heap[a].cls = "DelegatorTarget" /\ heap[b].cls = "DelegatorTarget"
            /\ heap[a].delegate = heap[b].delegate ) =>
              <<heap[a].mnemonic, heap[a].flags>> # <<heap[b].mnemonic, heap[b].flags>>
    /\ (declared = 1 /\ ret.op = "get_target") =>
          ret.result.outcome # "AssertionError"

(* ---------------------------------------------------------------------- *)
(* How far a delegator's override reaches                                  *)
(* ---------------------------------------------------------------------- *)
\* C18: a step of a delegator's execute changes the scope of no instance but
\* its delegate; so a BuildSystemTarget called by a composite, also by a
\* composite that runs as the delegate of a delegator, calls the builder under
\* the scope it had before the outermost call: is_global exactly when that
\* scope is GLOBAL, and "all" for an empty build_target unless it is LOCAL.
C18_OverrideIsShallow ==
    [][LET t == MainThread
       IN  /\ StepsIn(t, "DelegatorTarget") =>
                \A o \in DOMAIN heap \ {heap[Top(t).self].delegate} :
                    heap'[o].scope = heap[o].scope
           /\ ( /\ StepsIn(t, "BuildSystemTarget")
                /\ Len(calls'[t]) = Len(calls[t]) + 1
                /\ Len(stack[t]) > 1
                /\ heap[stack[t][Len(stack[t]) - 1].self].cls = "CompositeTarget" ) =>
                LET self == Top(t).self
                    own == log[t][1].scopes[self]
                    c == calls'[t][Len(calls'[t])].call
                IN  /\ c.by = self
                    /\ c.is_global = (own = TargetScope_GLOBAL)
                    /\ c.build_target =
                          IF heap[self].build_target # "" \/ own = TargetScope_LOCAL
                          THEN heap[self].build_target
                          ELSE "all"
      ]_vars

\* a composite of scope BOTH was executed through its GLOBAL delegator, and
\* its child of scope LOCAL called the builder with ("", false)
C18_Witness ==
    LET t == MainThread
    IN  /\ Idle /\ log[t] # <<>>
        /\ heap[Outermost(t)].cls = "DelegatorTarget"
        /\ heap[Outermost(t)].scope = TargetScope_GLOBAL
        /\ heap[heap[Outermost(t)].delegate].cls = "CompositeTarget"
        /\ heap[heap[Outermost(t)].delegate].scope = TargetScope_BOTH
        /\ calls[t] # <<>>
        /\ heap[calls[t][1].call.by].scope = TargetScope_LOCAL
        /\ calls[t][1].call.build_target = ""
        /\ ~calls[t][1].call.is_global

(* ---------------------------------------------------------------------- *)
(* The scopes of the registered targets                                    *)
(* ---------------------------------------------------------------------- *)
\* the place in log[t] of the execute that made the k-th builder call
PlaceOfCall(t, k) ==
    CHOOSE j \in DOMAIN log[t] :
        /\ heap[log[t][j].self].cls = "BuildSystemTarget"
        /\ Cardinality({i \in 1..j :
                           heap[log[t][i].self].cls = "BuildSystemTarget"}) = k

\* the k-th builder call was made by an execute that a registered delegator
\* called
ThroughRegisteredDelegator(t, k) ==
    LET j == PlaceOfCall(t, k)
    IN  /\ log[t][j].depth > 1
        /\ LET caller == log[t][CallerOf(t, j)].self
           IN  /\ heap[caller].cls = "DelegatorTarget"
               /\ caller \in Registered

\* C19 as claimed: between and during the execute calls made on the results
\* of get_target every registered target has the scope LOCAL or GLOBAL, and
\* every builder call of a registered BuildSystemTarget, or of one executed
\* through a registered delegator, that passes "all" for an empty build_target
\* passes is_global = true.
C19_RegisteredNeverBoth ==
    /\ \A o \in Registered : heap[o].scope \in LocalOrGlobal
    /\ \A k \in DOMAIN calls[MainThread] :
          LET c == calls[MainThread][k].call
          IN  ( /\ c.by \in Registered \/ ThroughRegisteredDelegator(MainThread, k)
                /\ heap[c.by].build_target = ""
                /\ c.build_target = "all" ) => c.is_global

====
